---- MODULE Spec2Model ----
(***************************************************************************)
(* Model of the claims EDI core: the reconciliation engine                 *)
(* (src/src/services/reconciliationEngine.ts), the response parsers'       *)
(* status mappings, the 837P generator and the claim submission route.     *)
(*                                                                         *)
(* The specifications of the module:                                       *)
(*   Spec       the reconciliation run applied to the claim store          *)
(*   SpecFault  the same run when writes to the store can fail             *)
(*   SpecRuns   successive runs with fetch failures, thrown errors and     *)
(*              crashes                                                    *)
(*   SpecGen    the submission route: generate the 837P, store, upload     *)
(*   SpecMint   the control numbers of successive submission attempts      *)
(*   SpecParse  the 999 and 835 parsers applied to response texts          *)
(*   SpecAgain  a run whose file holds one parsed response more than once  *)
(*   SpecOverlap  two reconciliation runs requested at the same time       *)
(***************************************************************************)
EXTENDS Integers, Sequences, FiniteSets, TLC

(***************************************************************************)
(* Bounds                                                                  *)
(***************************************************************************)
NumClaims == 2
MaxEntries == 2
MaxAmt == 1
MaxDiag == 2
MaxLines == 2
MaxCharge == 2
MaxAttempts == 4
MaxRuns == 2
MaxClp == 2
MaxAk2 == 2

(***************************************************************************)
(* Store values                                                            *)
(***************************************************************************)
NULL == "NULL"

ClaimIds == 1..NumClaims

ClaimStatus ==
  {"draft", "submitted", "acknowledged", "accepted", "rejected", "pending",
   "paid", "denied", "failed"}

\* the control numbers response entries carry: "c1" is held by stored claims,
\* "c9" by none; "c2" is held by stored claims that no entry names
ControlNumbers == {"c1", "c9"}
PayerClaimNumbers == {"p1"}

\* the inbound directory: one response file of each type
FileNames == {"f.999", "f.277", "f.835"}

detectFileType(filename) ==
  CASE filename = "f.999" -> "999"
    [] filename = "f.277" -> "277"
    [] filename = "f.835" -> "835"

(***************************************************************************)
(* Code tables                                                             *)
(***************************************************************************)
STC_CATEGORY_CODES ==
  [A0 |-> "acknowledged", A1 |-> "acknowledged", A2 |-> "accepted",
   A3 |-> "rejected", A4 |-> "pending", A5 |-> "rejected", A6 |-> "pending",
   A7 |-> "rejected", A8 |-> "rejected", D0 |-> "acknowledged",
   E0 |-> "pending", E1 |-> "pending", E2 |-> "pending", E3 |-> "pending",
   E4 |-> "pending", F0 |-> "accepted", F1 |-> "denied", F2 |-> "paid",
   F3 |-> "accepted", F4 |-> "accepted", R0 |-> "pending", R1 |-> "accepted",
   R3 |-> "rejected", R4 |-> "rejected", R5 |-> "pending", RQ |-> "pending",
   WQ |-> "pending"]

\* category codes the modelled 277 entries carry: mapped codes, an unmapped
\* one, and the empty code of a loop without STC segment
CategoryCodes == {"A2", "A3", "F2", "Z9", ""}

\* variant: an unmapped category code is taken for a rejection
MappedStatus277OrRejected(code) ==
  IF code \in DOMAIN STC_CATEGORY_CODES THEN STC_CATEGORY_CODES[code]
  ELSE "rejected"

\* parseClaimStatuses: stcInfo?.claimStatus || 'pending'
MappedStatus277(code) ==
  IF code \in DOMAIN STC_CATEGORY_CODES THEN STC_CATEGORY_CODES[code]
  ELSE "pending"

AK9_STATUS_CODES ==
  [A |-> "Accepted", E |-> "Accepted, But Errors Were Noted",
   P |-> "Partially Accepted, At Least One Transaction Set Was Rejected",
   R |-> "Rejected"]

CLP_STATUS_CODES ==
  ("1" :> [description |-> "Processed as Primary", isPaid |-> TRUE]) @@
  ("2" :> [description |-> "Processed as Secondary", isPaid |-> TRUE]) @@
  ("3" :> [description |-> "Processed as Tertiary", isPaid |-> TRUE]) @@
  ("4" :> [description |-> "Denied", isPaid |-> FALSE]) @@
  ("19" :> [description |->
              "Processed as Primary, Forwarded to Additional Payer",
            isPaid |-> TRUE]) @@
  ("20" :> [description |->
              "Processed as Secondary, Forwarded to Additional Payer",
            isPaid |-> TRUE]) @@
  ("21" :> [description |->
              "Processed as Tertiary, Forwarded to Additional Payer",
            isPaid |-> TRUE]) @@
  ("22" :> [description |-> "Reversal of Previous Payment",
            isPaid |-> FALSE]) @@
  ("23" :> [description |->
              "Not Our Claim, Forwarded to Additional Payer",
            isPaid |-> FALSE]) @@
  ("25" :> [description |-> "Predetermination Pricing Only",
            isPaid |-> FALSE])

\* AK9 codes the modelled 999 files carry: the mapped ones and none
Ak9Codes == {"A", "R", ""}

\* parse999: isAccepted
Accepted999(ak9) == ak9 = "A" \/ ak9 = "E"

\* parse999: statusDescription
StatusDescription999(ak9) ==
  IF ak9 \in DOMAIN AK9_STATUS_CODES THEN AK9_STATUS_CODES[ak9]
  ELSE "Unknown status"

(***************************************************************************)
(* EDI text.  A text is a sequence of tokens: the separators "~", "*", ":" *)
(* and line breaks are tokens of their own, every other token is a         *)
(* non-empty run of characters without separator or white space at its     *)
(* ends.  An empty element contributes no token.                           *)
(***************************************************************************)
RECURSIVE Flatten(_)
Flatten(ss) == IF ss = <<>> THEN <<>> ELSE Head(ss) \o Flatten(Tail(ss))

\* the element holding the string x
E(x) == IF x = "" THEN <<>> ELSE <<x>>

\* `id*e1*e2...~`
Seg(id, elems) ==
  <<id>> \o Flatten([i \in 1..Len(elems) |-> <<"*">> \o elems[i]]) \o <<"~">>

\* segments.join('\n')
RECURSIVE JoinLines(_)
JoinLines(segs) ==
  IF segs = <<>> THEN <<>>
  ELSE IF Tail(segs) = <<>> THEN Head(segs)
  ELSE Head(segs) \o <<"\n">> \o JoinLines(Tail(segs))

\* String.split on a separator token
RECURSIVE Split(_, _)
Split(s, sep) ==
  IF \A i \in DOMAIN s : s[i] # sep THEN <<s>>
  ELSE LET i == CHOOSE k \in DOMAIN s :
                  s[k] = sep /\ \A j \in 1..(k - 1) : s[j] # sep
       IN  <<SubSeq(s, 1, i - 1)>> \o Split(SubSeq(s, i + 1, Len(s)), sep)

WhiteSpace == {"\n", "\r", " ", "\t"}

\* String.trim
RECURSIVE Trim(_)
Trim(s) ==
  IF s = <<>> THEN s
  ELSE IF Head(s) \in WhiteSpace THEN Trim(Tail(s))
  ELSE IF s[Len(s)] \in WhiteSpace THEN Trim(SubSeq(s, 1, Len(s) - 1))
  ELSE s

\* content.replace(/\r\n/g, '\n').replace(/\r/g, '\n')
NormalizeLineEndings(s) ==
  LET replaced == [i \in DOMAIN s |->
                     IF s[i] # "\r" THEN s[i]
                     ELSE IF i < Len(s) /\ s[i + 1] = "\n" THEN ""
                     ELSE "\n"]
  IN  SelectSeq(replaced, LAMBDA t : t # "")

\* parseEDISegments: split on "~", trim, drop the empty fragments, strip the
\* line breaks inside a fragment, split on "*"
parseEDISegments(content) ==
  LET fragments == Split(NormalizeLineEndings(content), "~")
      trimmed == [i \in DOMAIN fragments |-> Trim(fragments[i])]
      segmentStrings == SelectSeq(trimmed, LAMBDA f : Len(f) > 0)
  IN  [i \in DOMAIN segmentStrings |->
         LET cleanRaw == SelectSeq(segmentStrings[i], LAMBDA t : t # "\n")
             parts == Split(cleanRaw, "*")
         IN  [id |-> parts[1], elements |-> Tail(parts), raw |-> cleanRaw]]

\* getElement: "" (no token) when the segment has no such element
getElement(segment, index) ==
  IF index + 1 \in DOMAIN segment.elements
    THEN segment.elements[index + 1] ELSE <<>>

\* getSubElement
getSubElement(element, subIndex) ==
  LET parts == Split(element, ":")
  IN  IF element # <<>> /\ subIndex + 1 \in DOMAIN parts
        THEN parts[subIndex + 1] ELSE <<>>

\* variant: a parser that accepts a text without segments
ParseSucceedsAlways(content) == TRUE

\* parse999 / parse277 / parse835: a text without segments is a parse failure
ParseSucceeds(content) == Len(parseEDISegments(content)) # 0

\* the raw contents of the modelled response files: no text, a text of
\* separators and line breaks only, and a text with segments
FileContents ==
  {<<>>, <<"\n", "~", "\n", "~">>, <<"ISA", "*", "00", "~", "\n", "IEA", "~">>}

(***************************************************************************)
(* Parsed response entries                                                 *)
(***************************************************************************)
\* Parsed999: originalControlNumber ("" when neither AK1 nor GS carries one)
Entries999 == [cn : ControlNumbers \cup {""}, ak9 : Ak9Codes]

\* ClaimStatusInfo: parseClaimStatuses skips a TRN without control number
Entries277 ==
  [cn : ControlNumbers, pcn : PayerClaimNumbers \cup {""}, cat : CategoryCodes]

\* ClaimPaymentInfo: CLP01 may be absent
Adjustments ==
  {<<>>,
   <<[groupCode |-> "CO", reasonCode |-> "45"],
     [groupCode |-> "OA", reasonCode |-> "23"],
     [groupCode |-> "PR", reasonCode |-> "1"]>>}

Entries835 ==
  [cn : ControlNumbers \cup {""}, pcn : PayerClaimNumbers \cup {""},
   paid : 0..MaxAmt, code : {"4"}, adj : Adjustments]

(***************************************************************************)
(* State                                                                   *)
(***************************************************************************)
\* claims    claims table: ClaimIds -> row
\* events    claim_status_events table, in insertion order
\* fileRecs  edi_response_files table: filename -> row, or NoRec
\* run       the reconciliation run in progress and its ProcessingStats
\* cur       the response file the run is processing
\* hist      history of what the engine did, for stating the properties
\*           (run.fetchFailed, the files whose fetch failed, is history too)
\* post      the claim submission request in progress
\* parser    the response text handed to a parser, and what it returned
\* overlap   two reconciliation runs in progress at the same time
VARIABLES claims, events, fileRecs, run, cur, hist, post, parser, overlap

vars == <<claims, events, fileRecs, run, cur, hist, post, parser, overlap>>

reconVars == <<claims, events, fileRecs, run, cur, hist>>

NoRec == [file_type |-> "none", file_content |-> <<>>,
          processing_status |-> "none", processing_error |-> NULL,
          claims_matched |-> 0, claims_updated |-> 0]

NoFile == [type |-> "none", name |-> "", content |-> <<>>, seen |-> 0,
           ok |-> TRUE, matched |-> 0, updated |-> 0]

IdleRun == [pc |-> "idle", existing |-> {}, taken |-> {}, fetchFailed |-> {},
            entries |-> 0, downloaded |-> 0,
            file999Count |-> 0, file277Count |-> 0, file835Count |-> 0,
            claimsUpdated |-> 0, errors |-> <<>>, success |-> TRUE]

NoHist == [writes |-> [c \in ClaimIds |-> 0], lastMatch |-> "none",
           unmatched |-> 0, faults |-> {}, runs |-> 0, lastEnd |-> "none"]

NoPost == [pc |-> "off"]

NoParse == [pc |-> "off"]

NoOverlap == [pc |-> "off"]

InitClaim(cn, st) ==
  [status |-> st, control_number |-> cn, payer_claim_number |-> NULL,
   paid_amount |-> <<>>, acknowledgment_date |-> FALSE,
   accepted_date |-> FALSE, rejected_date |-> FALSE, paid_date |-> FALSE,
   rejection_reason |-> NULL]

(***************************************************************************)
(* Claim store lookups (supabase .eq filters)                              *)
(***************************************************************************)
findClaimsByControlNumber(cl, cn) ==
  {c \in ClaimIds : cl[c].control_number = cn}

findClaimsByPayerClaimNumber(cl, pcn) ==
  {c \in ClaimIds : cl[c].payer_claim_number = pcn}

\* process999File: claims are looked up only when the 999 carries a control
\* number
Match999(cl, e) ==
  IF e.cn # "" THEN findClaimsByControlNumber(cl, e.cn) ELSE {}

\* variant: both lookups are always made and their results merged
MatchEntryBoth(cl, e) ==
  (IF e.cn # "" THEN findClaimsByControlNumber(cl, e.cn) ELSE {})
    \cup (IF e.pcn # "" THEN findClaimsByPayerClaimNumber(cl, e.pcn) ELSE {})

\* process277File / process835File: control number first, payer claim number
\* only when the first lookup found nothing
MatchEntry(cl, e) ==
  LET byCn == IF e.cn # "" THEN findClaimsByControlNumber(cl, e.cn) ELSE {}
  IN  IF byCn = {} /\ e.pcn # ""
        THEN findClaimsByPayerClaimNumber(cl, e.pcn)
        ELSE byCn

\* how MatchEntry found its claims
MatchKind(cl, e) ==
  LET byCn == IF e.cn # "" THEN findClaimsByControlNumber(cl, e.cn) ELSE {}
  IN  IF byCn # {} THEN "cn"
      ELSE IF e.pcn # "" /\ findClaimsByPayerClaimNumber(cl, e.pcn) # {}
             THEN "pcn"
             ELSE "unmatched"

(***************************************************************************)
(* Status transitions by source                                            *)
(***************************************************************************)
NewStatus999(e) == IF Accepted999(e.ak9) THEN "acknowledged" ELSE "rejected"

\* variant: a 999 is applied to a claim in any status
ShouldUpdate999Always(previousStatus, newStatus) == TRUE

\* process999File: "Only update if status is changing and appropriate"
ShouldUpdate999(previousStatus, newStatus) ==
  \/ previousStatus = "submitted"
  \/ (previousStatus = "acknowledged" /\ newStatus = "rejected")

Update999(row, e) ==
  [row EXCEPT !.status = NewStatus999(e),
              !.acknowledgment_date = TRUE,
              !.rejection_reason =
                 IF Accepted999(e.ak9) THEN NULL
                 ELSE StatusDescription999(e.ak9)]

\* the status description of a 277 entry is a function of its category code;
\* the model keeps the code as its tag
StatusDescription277(cat) == "277:" \o cat

\* variant: the dates of the 277 are never stored
Update277NoDates(row, e) ==
  LET newStatus == MappedStatus277(e.cat)
      r1 == [row EXCEPT !.status = newStatus]
  IN  IF e.pcn # "" THEN [r1 EXCEPT !.payer_claim_number = e.pcn] ELSE r1

Update277(row, e) ==
  LET newStatus == MappedStatus277(e.cat)
      r1 == [row EXCEPT !.status = newStatus]
      r2 == IF e.pcn # "" THEN [r1 EXCEPT !.payer_claim_number = e.pcn]
            ELSE r1
  IN  IF newStatus = "accepted" THEN [r2 EXCEPT !.accepted_date = TRUE]
      ELSE IF newStatus = "rejected"
        THEN [r2 EXCEPT !.rejected_date = TRUE,
                        !.rejection_reason = StatusDescription277(e.cat)]
        ELSE r2

\* variant: the status follows the CLP status code of the entry
NewStatus835ByCode(e) ==
  IF e.code \in DOMAIN CLP_STATUS_CODES /\ CLP_STATUS_CODES[e.code].isPaid
    THEN "paid" ELSE "denied"

NewStatus835(e) == IF e.paid > 0 THEN "paid" ELSE "denied"

\* the status description of an 835 entry is a function of its CLP02 code
StatusDescription835(code) == "835:" \o code

RECURSIVE JoinReasons(_)
JoinReasons(adj) ==
  IF adj = <<>> THEN ""
  ELSE LET h == Head(adj).groupCode \o "-" \o Head(adj).reasonCode
       IN  IF Tail(adj) = <<>> THEN h ELSE h \o ", " \o JoinReasons(Tail(adj))

\* payment.adjustments.filter(CO or PR).map(group-reason).join(', ')
DenialReasons(adj) ==
  JoinReasons(SelectSeq(adj, LAMBDA a : a.groupCode \in {"CO", "PR"}))

Update835(row, e) ==
  LET r1 == [row EXCEPT !.status = NewStatus835(e),
                        !.payer_claim_number =
                           IF e.pcn # "" THEN e.pcn ELSE NULL,
                        !.paid_amount = <<e.paid>>,
                        !.paid_date = TRUE]
  IN  IF NewStatus835(e) = "denied"
        THEN [r1 EXCEPT !.rejection_reason =
                IF DenialReasons(e.adj) # "" THEN DenialReasons(e.adj)
                ELSE StatusDescription835(e.code)]
        ELSE r1

\* recordStatusEvent: the inserted row (paymentAmount || null)
StatusEvent(claimId, file, previousStatus, newStatus, source, amount) ==
  [claim_id |-> claimId,
   previous_status |-> previousStatus, new_status |-> newStatus,
   source |-> source,
   payment_amount |-> IF amount # <<>> /\ amount[1] # 0 THEN amount ELSE <<>>]

\* the events of the claims in W, in the order the matched rows are visited
RECURSIVE EventsFor(_, _, _)
EventsFor(i, W, evOf) ==
  IF i > NumClaims THEN <<>>
  ELSE (IF i \in W THEN <<evOf[i]>> ELSE <<>>) \o EventsFor(i + 1, W, evOf)

(***************************************************************************)
(* The store when the run starts.  Claim 1 is submitted under control      *)
(* number "c1".  The other claims either share "c1", or are claims under   *)
(* "c2" that an earlier 277 (category A1, payer claim number "p1") has     *)
(* already acknowledged.                                                   *)
(***************************************************************************)
EarlierEntry == [cn |-> "c2", pcn |-> "p1", cat |-> "A1"]

EarlierClaim == Update277(InitClaim("c2", "submitted"), EarlierEntry)

EarlierEvent(c) ==
  StatusEvent(c, "", "submitted", MappedStatus277(EarlierEntry.cat), "277",
              <<>>)

InitRecon ==
  /\ \E shared \in BOOLEAN :
       /\ claims = [c \in ClaimIds |->
                      IF shared \/ c = 1 THEN InitClaim("c1", "submitted")
                      ELSE EarlierClaim]
       /\ events = IF shared THEN <<>>
                   ELSE EventsFor(2, ClaimIds, [c \in ClaimIds |-> EarlierEvent(c)])
       /\ hist = [NoHist EXCEPT !.writes =
                    [c \in ClaimIds |-> IF shared \/ c = 1 THEN 0 ELSE 1]]
  /\ fileRecs = [f \in FileNames |-> NoRec]
  /\ run = IdleRun
  /\ cur = NoFile

(***************************************************************************)
(* One reconciliation run: runReconciliation                               *)
(***************************************************************************)
\* variant: only the files that were processed count as downloaded
existingFilenamesProcessed(recs) ==
  {f \in FileNames : recs[f].processing_status = "processed"}

\* lines 52-56: the filenames of all rows of edi_response_files
existingFilenames(recs) == {f \in FileNames : recs[f] # NoRec}

\* lines 51-73: list the known filenames and download the new files; a
\* failed download ends the run.  The downloaded list is revealed one file at
\* a time by BeginFile: any order of the listing, any file missing because
\* its fetch failed.  The query for the known filenames is taken to succeed.
StartRun(downloadFail) ==
  /\ run.pc = "idle"
  /\ LET existing == existingFilenames(fileRecs)
     IN  run' = IF downloadFail
                  THEN [IdleRun EXCEPT !.pc = "done", !.success = FALSE,
                          !.errors = <<[file |-> "", kind |-> "download"]>>]
                  ELSE [IdleRun EXCEPT !.pc = "loop", !.existing = existing]
  /\ hist' = [hist EXCEPT !.unmatched = 0, !.faults = {},
                          !.lastMatch = "none"]
  /\ cur' = NoFile
  /\ UNCHANGED <<claims, events, fileRecs, post, parser, overlap>>

\* lines 76-102, for the next downloaded file f: save the file record with
\* its type and content; then the file's parser runs
BeginFile(f, saveFail, content) ==
  /\ run.pc = "loop"
  /\ cur.type = "none"
  /\ f \notin run.existing
  /\ f \notin run.taken
  /\ IF saveFail \/ fileRecs[f] # NoRec
       THEN /\ run' = [run EXCEPT !.taken = @ \cup {f},
                         !.downloaded = @ + 1,
                         !.errors = Append(@, [file |-> f, kind |-> "save"])]
            /\ UNCHANGED <<fileRecs, cur>>
       ELSE /\ fileRecs' = [fileRecs EXCEPT ![f] =
                              [NoRec EXCEPT !.file_type = detectFileType(f),
                                            !.file_content = content,
                                            !.processing_status = "pending"]]
            /\ cur' = [type |-> detectFileType(f), name |-> f,
                       content |-> content, seen |-> 0,
                       ok |-> ParseSucceeds(content),
                       matched |-> 0, updated |-> 0]
            /\ run' = [run EXCEPT !.taken = @ \cup {f},
                                  !.downloaded = @ + 1]
  /\ UNCHANGED <<claims, events, hist, post, parser, overlap>>

\* a parsed 999 is applied once; a parsed 277 or 835 holds any number of
\* claim entries, of which a run meets at most MaxEntries
MoreEntries ==
  /\ cur.ok
  /\ IF cur.type = "999" THEN cur.seen = 0 ELSE run.entries < MaxEntries

\* the loop body of process999File / process277File / process835File for the
\* matched set M: rows in M \ updateFail that pass `should` are written, and
\* each written row outside eventFail gets its status event
ApplyTo(M, should, newRow, evOf, updateFail, eventFail, kind) ==
  LET attempted == {c \in M : should[c]}
      written == attempted \ updateFail
      audited == written \ eventFail
  IN  /\ claims' = [c \in ClaimIds |->
                      IF c \in written THEN newRow[c] ELSE claims[c]]
      /\ events' = events \o EventsFor(1, audited, evOf)
      /\ cur' = [cur EXCEPT !.seen = cur.seen + 1,
                            !.matched = cur.matched + Cardinality(M),
                            !.updated = cur.updated + Cardinality(written)]
      /\ hist' = [hist EXCEPT
                    !.writes = [c \in ClaimIds |->
                                  IF c \in written THEN hist.writes[c] + 1
                                  ELSE hist.writes[c]],
                    !.lastMatch = kind,
                    !.unmatched = IF kind = "unmatched" /\ cur.type # "999"
                                    THEN hist.unmatched + 1
                                    ELSE hist.unmatched,
                    !.faults = hist.faults
                       \cup (IF attempted \cap updateFail # {}
                               THEN {"update"} ELSE {})
                       \cup (IF written \cap eventFail # {}
                               THEN {"event"} ELSE {})]
      /\ run' = [run EXCEPT !.entries = @ + (IF cur.type = "999" THEN 0
                                             ELSE 1)]
      /\ UNCHANGED <<fileRecs, post, parser, overlap>>

\* process999File, lines 217-264
Apply999(e, updateFail, eventFail) ==
  /\ cur.type = "999"
  /\ MoreEntries
  /\ LET M == Match999(claims, e)
     IN  /\ updateFail \subseteq M
         /\ eventFail \subseteq M \ updateFail
         /\ ApplyTo(M,
              [c \in ClaimIds |->
                 ShouldUpdate999(claims[c].status, NewStatus999(e))],
              [c \in ClaimIds |-> Update999(claims[c], e)],
              [c \in ClaimIds |->
                 StatusEvent(c, cur.name, claims[c].status, NewStatus999(e),
                             "999", <<>>)],
              updateFail, eventFail,
              IF M # {} THEN "cn" ELSE "unmatched")

\* process277File, lines 294-360, one claimStatus entry
Apply277(e, updateFail, eventFail) ==
  /\ cur.type = "277"
  /\ MoreEntries
  /\ LET M == MatchEntry(claims, e)
     IN  /\ updateFail \subseteq M
         /\ eventFail \subseteq M \ updateFail
         /\ ApplyTo(M,
              [c \in ClaimIds |-> TRUE],
              [c \in ClaimIds |-> Update277(claims[c], e)],
              [c \in ClaimIds |->
                 StatusEvent(c, cur.name, claims[c].status,
                             MappedStatus277(e.cat), "277", <<>>)],
              updateFail, eventFail, MatchKind(claims, e))

\* process835File, lines 390-460, one claim payment entry
Apply835(e, updateFail, eventFail) ==
  /\ cur.type = "835"
  /\ MoreEntries
  /\ LET M == MatchEntry(claims, e)
     IN  /\ updateFail \subseteq M
         /\ eventFail \subseteq M \ updateFail
         /\ ApplyTo(M,
              [c \in ClaimIds |-> TRUE],
              [c \in ClaimIds |-> Update835(claims[c], e)],
              [c \in ClaimIds |->
                 StatusEvent(c, cur.name, claims[c].status, NewStatus835(e),
                             "835", <<e.paid>>)],
              updateFail, eventFail, MatchKind(claims, e))

\* lines 104-124: store the file's result, count the file, collect its error
EndFile ==
  /\ run.pc = "loop"
  /\ cur.type # "none"
  /\ (cur.type = "999" /\ cur.ok) => cur.seen = 1
  /\ fileRecs' = [fileRecs EXCEPT ![cur.name] =
                    [@ EXCEPT
                       !.processing_status =
                          IF cur.ok THEN "processed" ELSE "failed",
                       !.processing_error =
                          IF cur.ok THEN NULL ELSE "No segments found",
                       !.claims_matched = cur.matched,
                       !.claims_updated = cur.updated]]
  /\ run' = [run EXCEPT
               !.file999Count = @ + (IF cur.type = "999" THEN 1 ELSE 0),
               !.file277Count = @ + (IF cur.type = "277" THEN 1 ELSE 0),
               !.file835Count = @ + (IF cur.type = "835" THEN 1 ELSE 0),
               !.claimsUpdated = @ + cur.updated,
               !.errors = IF cur.ok THEN @
                          ELSE Append(@, [file |-> cur.name,
                                          kind |-> "process"])]
  /\ cur' = NoFile
  /\ UNCHANGED <<claims, events, hist, post, parser, overlap>>

\* lines 132-150: the downloaded list is exhausted and the run returns its
\* summary
FinishRun ==
  /\ run.pc = "loop"
  /\ cur.type = "none"
  /\ run' = [run EXCEPT !.pc = "done", !.success = (run.errors = <<>>)]
  /\ UNCHANGED <<claims, events, fileRecs, cur, hist, post, parser, overlap>>

\* the reconciliation run over a store that accepts every claim write
NextRecon ==
  \/ \E df \in BOOLEAN : StartRun(df)
  \/ \E f \in FileNames, sf \in BOOLEAN, content \in FileContents :
       BeginFile(f, sf, content)
  \/ \E e \in Entries999 : Apply999(e, {}, {})
  \/ \E e \in Entries277 : Apply277(e, {}, {})
  \/ \E e \in Entries835 : Apply835(e, {}, {})
  \/ EndFile
  \/ FinishRun

(***************************************************************************)
(* 837P generator                                                          *)
(***************************************************************************)
\* Number.toFixed(2) of a whole amount
ToFixed2(n) == ToString(n) \o ".00"

getRelationshipCode(rel) ==
  CASE rel = "self" -> "18"
    [] rel = "spouse" -> "01"
    [] rel = "child" -> "19"
    [] rel = "other" -> "G8"
    [] OTHER -> "18"

\* variant: a spouse is taken for the subscriber
isPatientSubscriberOrSpouse(data) ==
  data.subscriberRelationship \in {"self", "spouse"}

isPatientSubscriber(data) == data.subscriberRelationship = "self"

\* the comparator of the diagnosis sort
ComparePrimary(a, b) ==
  (IF b.isPrimary THEN 1 ELSE 0) - (IF a.isPrimary THEN 1 ELSE 0)

\* Array.prototype.sort is stable: x goes behind every element it does not
\* precede
RECURSIVE InsertSorted(_, _)
InsertSorted(x, s) ==
  IF s = <<>> THEN <<x>>
  ELSE IF ComparePrimary(Head(s), x) <= 0
    THEN <<Head(s)>> \o InsertSorted(x, Tail(s))
  ELSE <<x>> \o s

RECURSIVE SortDiagnoses(_)
SortDiagnoses(ds) ==
  IF ds = <<>> THEN <<>>
  ELSE InsertSorted(ds[Len(ds)], SortDiagnoses(SubSeq(ds, 1, Len(ds) - 1)))

\* variant: the code is emitted as entered
StripDotNever(code) == code

\* d.code.replace('.', ''): the first "." goes
StripDot(code) ==
  IF \A i \in DOMAIN code : code[i] # "." THEN code
  ELSE LET i == CHOOSE k \in DOMAIN code :
                  code[k] = "." /\ \A j \in 1..(k - 1) : code[j] # "."
       IN  SubSeq(code, 1, i - 1) \o SubSeq(code, i + 1, Len(code))

\* the composite elements of the HI segment
DiagElements(sorted) ==
  [i \in DOMAIN sorted |->
     <<IF i = 1 THEN "ABK" ELSE "ABF", ":">> \o StripDot(sorted[i].code)]

RECURSIVE SumCharges(_)
SumCharges(lines) ==
  IF lines = <<>> THEN 0 ELSE Head(lines).charge + SumCharges(Tail(lines))

\* line.diagnosisPointers.join(':')
RECURSIVE JoinPointers(_)
JoinPointers(ptrs) ==
  IF ptrs = <<>> THEN <<>>
  ELSE IF Tail(ptrs) = <<>> THEN <<ToString(Head(ptrs))>>
  ELSE <<ToString(Head(ptrs)), ":">> \o JoinPointers(Tail(ptrs))

\* the LX, SV1 and DTP segments of service line number lineNum
ServiceLineSegments(line, lineNum) ==
  << Seg("LX", <<E(ToString(lineNum))>>),
     Seg("SV1", << <<"HC", ":", line.cpt>>
                     \o (IF line.modifier # "" THEN <<":", line.modifier>>
                         ELSE <<>>),
                   E(ToFixed2(line.charge)), E("UN"), E(ToString(line.units)),
                   <<>>, <<>>, JoinPointers(line.diagnosisPointers) >>),
     Seg("DTP", <<E("472"), E("D8"), E(line.dos)>>) >>

\* the segments pushed before the SE segment
BodySegments(data) ==
  LET cn == data.controlNumber
      sbrRelCode == getRelationshipCode(data.subscriberRelationship)
      \* the subscriber name is held as its words
      subscriberParts == data.subscriberName
      subLast == subscriberParts[Len(subscriberParts)]
      subFirst == IF Len(subscriberParts) = 2 THEN subscriberParts[1] ELSE ""
      patientDemographics ==
        << Seg("N3", <<E(data.patientAddress.street)>>),
           Seg("N4", <<E(data.patientAddress.city),
                       E(data.patientAddress.state),
                       E(data.patientAddress.zip)>>),
           Seg("DMG", <<E("D8"), E(data.patientDob), E(data.patientGender)>>) >>
  IN
  << Seg("ISA", <<E("00"), E("          "), E("00"), E("          "),
                  E("ZZ"), E("MOONLIT        "), E("ZZ"),
                  E("OFFALLY        "), E("YYMMDD"), E("HHMM"), E("^"),
                  E("00501"), E(cn), E("0"), E("P"), <<":">> >>),
     Seg("GS", <<E("HC"), E("MOONLIT"), E("OFFALLY"), E("YYYYMMDD"),
                 E("HHMM"), E(cn), E("X"), E("005010X222A1")>>),
     Seg("ST", <<E("837"), E("0001"), E("005010X222A1")>>),
     Seg("BHT", <<E("0019"), E("00"), E(cn), E("YYYYMMDD"), E("HHMMSS"),
                  E("CH")>>),
     Seg("NM1", <<E("41"), E("2"), E(data.billingName), <<>>, <<>>, <<>>,
                  <<>>, E("46"), E(data.billingNpi)>>),
     Seg("PER", <<E("IC"), E("BILLING"), E("TE"), E("8015550100")>>),
     Seg("NM1", <<E("40"), E("2"), E("OFFICE ALLY"), <<>>, <<>>, <<>>, <<>>,
                  E("46"), E("OFFALLY")>>),
     Seg("HL", <<E("1"), <<>>, E("20"), E("1")>>),
     Seg("PRV", <<E("BI"), E("PXC"), E("207Q00000X")>>),
     Seg("NM1", <<E("85"), E("2"), E(data.billingName), <<>>, <<>>, <<>>,
                  <<>>, E("XX"), E(data.billingNpi)>>),
     Seg("N3", <<E(data.billingAddress.street)>>),
     Seg("N4", <<E(data.billingAddress.city), E(data.billingAddress.state),
                 E(data.billingAddress.zip)>>),
     Seg("REF", <<E("EI"), E(data.billingTin)>>),
     Seg("HL", <<E("2"), E("1"), E("22"),
                 E(IF isPatientSubscriber(data) THEN "0" ELSE "1")>>),
     Seg("SBR", <<E("P"), E(sbrRelCode), E(data.groupNumber), <<>>, <<>>,
                  <<>>, <<>>, <<>>, E("CI")>>),
     Seg("NM1", <<E("IL"), E("1"), E(subLast), E(subFirst), <<>>, <<>>,
                  <<>>, E("MI"),
                  E(data.memberId)>>) >>
  \o (IF isPatientSubscriber(data) THEN patientDemographics ELSE <<>>)
  \o << Seg("NM1", <<E("PR"), E("2"), E(data.payerId), <<>>, <<>>, <<>>,
                     <<>>, E("PI"), E(data.payerId)>>) >>
  \o (IF ~isPatientSubscriber(data)
        THEN << Seg("HL", <<E("3"), E("2"), E("23"), E("0")>>),
                Seg("PAT", <<E(sbrRelCode)>>),
                Seg("NM1", <<E("QC"), E("1"), E(data.patientLastName),
                             E(data.patientFirstName)>>) >>
             \o patientDemographics
        ELSE <<>>)
  \o << Seg("CLM", <<E(cn), E(ToFixed2(SumCharges(data.serviceLines))), <<>>,
                     <<>>, <<"11", ":", "B", ":", "1">>, E("Y"), E("A"),
                     E("Y"), E("Y")>>),
        Seg("HI", DiagElements(SortDiagnoses(data.diagnosisCodes))),
        Seg("NM1", <<E("82"), E("1"), <<>>, <<>>, <<>>, <<>>, <<>>, E("XX"),
                     E(data.renderingNpi)>>),
        Seg("PRV", <<E("PE"), E("PXC"), E("207Q00000X")>>) >>
  \o Flatten([i \in DOMAIN data.serviceLines |->
                ServiceLineSegments(data.serviceLines[i], i)])

\* const segmentCount = segments.length + 1
segmentCount(segments) == Len(segments) + 1

buildX12_837P(data) ==
  LET segments == BodySegments(data)
  IN  JoinLines(segments
        \o << Seg("SE", <<E(ToString(segmentCount(segments))), E("0001")>>),
              Seg("GE", <<E("1"), E(data.controlNumber)>>),
              Seg("IEA", <<E("1"), E(data.controlNumber)>>) >>)

(***************************************************************************)
(* Claim submission: POST /api/claims                                      *)
(***************************************************************************)
SubscriberRelationship == {"self", "spouse", "child", "other"}

\* ICD-10 codes, with and without decimal point
DiagnosisCodes == {<<"F41", ".", "1">>, <<"Z79">>}

Diagnoses == [code : DiagnosisCodes, isPrimary : BOOLEAN]

\* office visits, and one telehealth visit with its modifier
ServiceLines ==
  [cpt : {"99214"}, modifier : {""}, charge : 1..MaxCharge,
   units : {1}, dos : {"20241015"}, diagnosisPointers : {<<1>>, <<2, 1>>}]
  \cup [cpt : {"90837"}, modifier : {"95"}, charge : {1},
        units : {1}, dos : {"20241015"}, diagnosisPointers : {<<1>>}]

SeqsUpTo(S, n) == UNION {[1..k -> S] : k \in 0..n}

\* the request bodies
Bodies ==
  [subscriber_relationship : SubscriberRelationship \cup {""},
   diagnosis_codes : SeqsUpTo(Diagnoses, MaxDiag),
   service_lines : SeqsUpTo(ServiceLines, MaxLines)]

\* lines 89-130: the EDIClaimData built from the request body
EdiData(body) ==
  [patientFirstName |-> "JANE", patientLastName |-> "DOE",
   patientDob |-> "19800101", patientGender |-> "F",
   patientAddress |-> [street |-> "1 MAIN ST", city |-> "PROVO",
                       state |-> "UT", zip |-> "84601"],
   payerId |-> "60054", memberId |-> "M1", groupNumber |-> "",
   subscriberName |-> <<"JANE", "DOE">>,
   subscriberRelationship |->
     IF body.subscriber_relationship # "" THEN body.subscriber_relationship
     ELSE "self",
   diagnosisCodes |-> body.diagnosis_codes,
   serviceLines |-> body.service_lines,
   renderingNpi |-> "1234567890", billingNpi |-> "1098765432",
   billingTin |-> "870000000", billingName |-> "MOONLIT PLLC",
   billingAddress |-> [street |-> "123 Medical Plaza",
                       city |-> "Salt Lake City", state |-> "UT",
                       zip |-> "84101"],
   controlNumber |-> "123456789"]

NoData == [diagnosisCodes |-> <<>>]

InitPost ==
  \E body \in Bodies :
    post = [pc |-> "start", body |-> body, data |-> NoData, edi |-> <<>>,
            claim |-> "none", control_number |-> NULL, uploaded |-> <<>>,
            response |-> 0]

\* lines 24-140: validate the body, build the claim data and generate the
\* 837P; the diagnosis sort of the generator works in place on the data
PostGenerate ==
  /\ post.pc = "start"
  /\ IF post.body.diagnosis_codes = <<>> \/ post.body.service_lines = <<>>
       THEN post' = [post EXCEPT !.pc = "done", !.response = 400]
       ELSE LET data == EdiData(post.body)
            IN  post' = [post EXCEPT
                           !.pc = "generated",
                           !.data = [data EXCEPT !.diagnosisCodes =
                                       SortDiagnoses(data.diagnosisCodes)],
                           !.edi = buildX12_837P(data)]
  /\ UNCHANGED <<reconVars, parser, overlap>>

\* lines 142-178: the claim row is saved as draft; control_number is not
\* among the inserted columns and takes the column's default
PostInsert(insertFail) ==
  /\ post.pc = "generated"
  /\ post' = IF insertFail
               THEN [post EXCEPT !.pc = "done", !.response = 500]
               ELSE [post EXCEPT !.pc = "saved", !.claim = "draft",
                                 !.control_number = NULL]
  /\ UNCHANGED <<reconVars, parser, overlap>>

\* lines 180-218: uploadClaim is called with the generated text and the claim
\* becomes submitted or failed
PostUpload(uploadOk) ==
  /\ post.pc = "saved"
  /\ post' = [post EXCEPT !.pc = "done",
                          !.uploaded = post.edi,
                          !.claim = IF uploadOk THEN "submitted" ELSE "failed",
                          !.response = IF uploadOk THEN 200 ELSE 500]
  /\ UNCHANGED <<reconVars, parser, overlap>>

NextGen ==
  \/ PostGenerate
  \/ \E insertFail \in BOOLEAN : PostInsert(insertFail)
  \/ \E uploadOk \in BOOLEAN : PostUpload(uploadOk)

\* the store of the submission route is not the subject of SpecGen
IdleRecon ==
  /\ claims = [c \in ClaimIds |-> InitClaim("c1", "submitted")]
  /\ events = <<>>
  /\ fileRecs = [f \in FileNames |-> NoRec]
  /\ run = IdleRun
  /\ cur = NoFile
  /\ hist = NoHist

InitGen == IdleRecon /\ InitPost /\ parser = NoParse /\ overlap = NoOverlap

SpecGen == InitGen /\ [][NextGen]_vars

(***************************************************************************)
(* Control numbers: generateControlNumber, called by POST at line 83       *)
(***************************************************************************)
\* the number of values nine decimal digits can take
NineDigits == 1000000000

\* Date.now().toString().slice(-9): the last nine digits of the clock's
\* milliseconds, held as the number they spell.  The clock of the model
\* counts from an instant whose millisecond count ends in nine zeros.
generateControlNumber(now) == now % NineDigits

\* the time between two submission attempts: none, one millisecond, and
\* the 10^9 milliseconds (about eleven and a half days) the digits span,
\* or one millisecond less
ClockSteps == {0, 1, NineDigits - 1, NineDigits}

MaxClock == 2 * NineDigits

InitMint ==
  post = [pc |-> "mint", now |-> 0, attempts |-> <<>>]

\* a submission attempt arrives dt after the one before and is given its
\* control number
PostMint(dt) ==
  /\ post.pc = "mint"
  /\ Len(post.attempts) < MaxAttempts
  /\ dt <= MaxClock - post.now
  /\ post' = [post EXCEPT
                 !.now = post.now + dt,
                 !.attempts =
                    Append(@, [at |-> post.now + dt,
                               controlNumber |->
                                 generateControlNumber(post.now + dt)])]
  /\ UNCHANGED <<reconVars, parser, overlap>>

NextMint == \E dt \in ClockSteps : PostMint(dt)

InitAttempts ==
  IdleRecon /\ InitMint /\ parser = NoParse /\ overlap = NoOverlap

SpecMint == InitAttempts /\ [][NextMint]_vars

(***************************************************************************)
(* The 835 parser: parse835 and parseClaimPayments                         *)
(***************************************************************************)
\* the string an element holds
ElementString(element) == IF element = <<>> THEN "" ELSE element[1]

\* the largest amount written in a modelled remittance text
MaxWritten == 150

\* parseFloat(element || '0') of an element holding a whole amount
ParseAmount(element) ==
  IF element = <<>> THEN 0
  ELSE CHOOSE n \in 0..MaxWritten : ToString(n) = ElementString(element)

\* parseAdjustment, without the description of the group code; a segment
\* with no group code gives null and is dropped by parseClaimPayments
parseAdjustment(cas) ==
  [groupCode |-> ElementString(getElement(cas, 0)),
   reasonCode |-> ElementString(getElement(cas, 1)),
   amount |-> ParseAmount(getElement(cas, 2))]

\* the indexes of the segments of segs with this id, in order
IndexesOf(segs, id) ==
  SelectSeq([i \in DOMAIN segs |-> i], LAMBDA i : segs[i].id = <<id>>)

\* parseClaimPayments, lines 536-572: the index after the last segment of
\* the loop of the CLP at clpIndex
LoopEnd(segs, clpIndex) ==
  IF \E j \in (clpIndex + 1)..Len(segs) : segs[j].id = <<"CLP">>
    THEN CHOOSE j \in (clpIndex + 1)..Len(segs) :
           /\ segs[j].id = <<"CLP">>
           /\ \A k \in (clpIndex + 1)..(j - 1) : segs[k].id # <<"CLP">>
    ELSE Len(segs) + 1

\* parseServiceLine, lines 633-642: the index after the last segment scanned
\* for the adjustments of the SVC at svcIndex
LineEnd(segs, svcIndex) ==
  LET stops == {j \in (svcIndex + 1)..Len(segs) :
                  segs[j].id \in {<<"SVC">>, <<"CLP">>}}
  IN  IF stops = {} THEN Len(segs) + 1
      ELSE CHOOSE k \in stops : \A m \in stops : k <= m

\* parseServiceLine, without the modifier
parseServiceLine(segs, svcIndex) ==
  LET svc == segs[svcIndex]
      procedureParts == Split(getElement(svc, 0), ":")
      casSegments ==
        SelectSeq(SubSeq(segs, svcIndex + 1, LineEnd(segs, svcIndex) - 1),
                  LAMBDA g : g.id = <<"CAS">> /\ getElement(g, 0) # <<>>)
  IN  [procedureCode |->
         IF Len(procedureParts) >= 2 /\ procedureParts[2] # <<>>
           THEN ElementString(procedureParts[2])
           ELSE ElementString(procedureParts[1]),
       chargeAmount |-> ParseAmount(getElement(svc, 1)),
       paidAmount |-> ParseAmount(getElement(svc, 2)),
       units |-> IF getElement(svc, 4) = <<>> THEN 1
                 ELSE ParseAmount(getElement(svc, 4)),
       adjustments |->
         [k \in DOMAIN casSegments |-> parseAdjustment(casSegments[k])]]

\* parseClaimPayments: the patient name and service date of the entries are
\* left out
parseClaimPayments(segs) ==
  LET clpIndexes == IndexesOf(segs, "CLP")
  IN  [n \in DOMAIN clpIndexes |->
         LET clpIndex == clpIndexes[n]
             clp == segs[clpIndex]
             statusCode == ElementString(getElement(clp, 1))
             known == statusCode \in DOMAIN CLP_STATUS_CODES
             loop == SubSeq(segs, clpIndex + 1, LoopEnd(segs, clpIndex) - 1)
             casSegments ==
               SelectSeq(loop, LAMBDA g :
                 g.id = <<"CAS">> /\ getElement(g, 0) # <<>>)
             svcIndexes ==
               SelectSeq([j \in 1..Len(loop) |-> clpIndex + j],
                         LAMBDA j : segs[j].id = <<"SVC">>)
         IN  [patientControlNumber |-> ElementString(getElement(clp, 0)),
              payerClaimNumber |-> ElementString(getElement(clp, 6)),
              statusCode |-> statusCode,
              statusDescription |->
                IF known THEN CLP_STATUS_CODES[statusCode].description
                ELSE "Status " \o statusCode,
              chargeAmount |-> ParseAmount(getElement(clp, 2)),
              paidAmount |-> ParseAmount(getElement(clp, 3)),
              patientResponsibility |-> ParseAmount(getElement(clp, 4)),
              adjustments |->
                [k \in DOMAIN casSegments |-> parseAdjustment(casSegments[k])],
              serviceLines |->
                [k \in DOMAIN svcIndexes |->
                   parseServiceLine(segs, svcIndexes[k])],
              claimStatus |->
                IF known /\ CLP_STATUS_CODES[statusCode].isPaid THEN "paid"
                ELSE "denied"]]

\* parse835: of the parsed remittance the claim payments are kept
parse835(content) ==
  LET segments == parseEDISegments(content)
  IN  IF Len(segments) = 0
        THEN [success |-> FALSE, claimPayments |-> <<>>]
        ELSE [success |-> TRUE,
              claimPayments |-> parseClaimPayments(segments)]

(***************************************************************************)
(* The 999 parser: parse999, parseTransactionResponses, is999Accepted      *)
(***************************************************************************)
\* findSegment: the first segment with this id; getElement of the missing
\* segment is ""
NoSegment == [id |-> <<>>, elements |-> <<>>, raw |-> <<>>]

findSegment(segs, id) ==
  LET found == IndexesOf(segs, id)
  IN  IF found = <<>> THEN NoSegment ELSE segs[found[1]]

\* parseInt(element || '0') of an element holding a whole number
ParseInt(element) == ParseAmount(element)

\* a code is an accepting one: 'A' or 'E'
AcceptingCode(code) == code = "A" \/ code = "E"

\* parseTransactionResponses, lines 116-129: the status code of the IK5 that
\* follows the AK2 at ak2Index before the next AK2 or AK9, "" without one
Ik5StatusCode(segs, ak2Index) ==
  LET stops == {j \in (ak2Index + 1)..Len(segs) :
                  segs[j].id \in {<<"IK5">>, <<"AK2">>, <<"AK9">>}}
  IN  IF stops = {} THEN ""
      ELSE LET j == CHOOSE k \in stops : \A m \in stops : k <= m
           IN  IF segs[j].id = <<"IK5">>
                 THEN ElementString(getElement(segs[j], 0)) ELSE ""

\* parseTransactionResponses, without the status description
parseTransactionResponses(segs) ==
  LET ak2Indexes == IndexesOf(segs, "AK2")
  IN  [n \in DOMAIN ak2Indexes |->
         LET ak2 == segs[ak2Indexes[n]]
             ik5StatusCode == Ik5StatusCode(segs, ak2Indexes[n])
         IN  [transactionSetId |-> ElementString(getElement(ak2, 0)),
              controlNumber |-> ElementString(getElement(ak2, 1)),
              accepted |-> AcceptingCode(ik5StatusCode),
              statusCode |-> ik5StatusCode]]

\* parse999, without the ISA control number and the collected error codes
parse999(content) ==
  LET segments == parseEDISegments(content)
      ak1 == findSegment(segments, "AK1")
      ak1GroupControlNumber == ElementString(getElement(ak1, 1))
      originalGSControlNumber ==
        ElementString(getElement(findSegment(segments, "GS"), 5))
      ak9 == findSegment(segments, "AK9")
      ak9StatusCode == ElementString(getElement(ak9, 0))
  IN  IF Len(segments) = 0
        THEN [success |-> FALSE]
        ELSE [success |-> TRUE,
              originalControlNumber |->
                IF ak1GroupControlNumber # "" THEN ak1GroupControlNumber
                ELSE originalGSControlNumber,
              accepted |-> Accepted999(ak9StatusCode),
              statusCode |-> ak9StatusCode,
              statusDescription |-> StatusDescription999(ak9StatusCode),
              transactionSetResponses |-> parseTransactionResponses(segments),
              includedTransactionCount |-> ParseInt(getElement(ak9, 1)),
              receivedTransactionCount |-> ParseInt(getElement(ak9, 2)),
              acceptedTransactionCount |-> ParseInt(getElement(ak9, 3))]

is999Accepted(parsed) ==
  parsed.accepted /\ parsed.acceptedTransactionCount > 0

\* the transaction responses of the modelled acknowledgments: an AK2 with an
\* accepting IK5, with a rejecting IK5, or with no IK5 behind it
ResponseLoops ==
  {Seg("AK2", <<E("837"), E("0001")>>) \o <<"\n">> \o ik5 :
     ik5 \in {<<>>} \cup
             {Seg("IK5", <<E(code)>>) \o <<"\n">> : code \in {"A", "R"}}}

\* the modelled acknowledgment texts: up to MaxAk2 transaction responses and
\* an AK9 trailer with any outcome code and any accepted count
Texts999 ==
  {Seg("ST", <<E("999"), E("0001")>>) \o <<"\n">>
     \o Seg("AK1", <<E("HC"), E("1")>>) \o <<"\n">>
     \o Flatten(loops)
     \o Seg("AK9", <<E(code), E(ToString(Len(loops))),
                     E(ToString(Len(loops))), E(ToString(count))>>) :
     loops \in SeqsUpTo(ResponseLoops, MaxAk2),
     code \in {"A", "E", "R"}, count \in 0..MaxAk2}

\* CLP02 codes of the modelled remittances: paid, denied, reversal, and a
\* code outside the table
ClpCodes == {"1", "4", "22", "99"}

\* the claim loops of the modelled remittances: a CLP segment, with or without
\* a claim adjustment behind it, with or without a service line that has an
\* adjustment of its own
ClaimLoops ==
  {Seg("CLP", <<E("c1"), E(code), E(ToString(MaxWritten)), E(ToString(paid)),
                E("0"), E("MC"), E("p1")>>)
     \o <<"\n">> \o cas
     \o (IF svc
           THEN Seg("SVC", <<<<"HC", ":", "90837">>, E(ToString(MaxWritten)),
                             E(ToString(paid)), <<>>, E("1")>>) \o <<"\n">>
                  \o Seg("CAS", <<E("PR"), E("2"), E("5")>>) \o <<"\n">>
           ELSE <<>>) :
     code \in ClpCodes, paid \in 0..MaxAmt,
     cas \in {<<>>, Seg("CAS", <<E("CO"), E("45"), E("10")>>) \o <<"\n">>},
     svc \in BOOLEAN}

\* the modelled remittance texts: header, up to MaxClp claim loops, trailer
Texts835 ==
  {Seg("ST", <<E("835"), E("0001")>>) \o <<"\n">>
     \o Seg("BPR", <<E("I"), E(ToString(MaxWritten))>>) \o <<"\n">>
     \o Flatten(loops)
     \o Seg("SE", <<E("4"), E("0001")>>) :
     loops \in SeqsUpTo(ClaimLoops, MaxClp)}

InitParse ==
  /\ IdleRecon
  /\ post = NoPost
  /\ overlap = NoOverlap
  /\ \E text \in ([type : {"999"}, content : Texts999]
                   \cup [type : {"835"}, content : Texts835]) :
       parser = [pc |-> "text", type |-> text.type, content |-> text.content,
                 result |-> <<>>]

\* process999File, line 201: the text is parsed
Parse999 ==
  /\ parser.pc = "text"
  /\ parser.type = "999"
  /\ parser' = [parser EXCEPT !.pc = "parsed",
                              !.result = parse999(parser.content)]
  /\ UNCHANGED <<reconVars, post, overlap>>

\* process835File, line 374: the text is parsed
Parse835 ==
  /\ parser.pc = "text"
  /\ parser.type = "835"
  /\ parser' = [parser EXCEPT !.pc = "parsed",
                              !.result = parse835(parser.content)]
  /\ UNCHANGED <<reconVars, post, overlap>>

NextParse == Parse999 \/ Parse835

SpecParse == InitParse /\ [][NextParse]_vars

Init == InitRecon /\ post = NoPost /\ parser = NoParse /\ overlap = NoOverlap

Next == NextRecon

Spec == Init /\ [][Next]_vars

(***************************************************************************)
(* A run whose response file holds the same parsed response more than      *)
(* once: every entry the run applies is the one in parser.result           *)
(***************************************************************************)
ParsedResponses ==
  [type : {"999"}, result : Entries999]
    \cup [type : {"277"}, result : Entries277]
    \cup [type : {"835"}, result : Entries835]

InitAgain ==
  /\ InitRecon
  /\ post = NoPost
  /\ overlap = NoOverlap
  /\ \E parsed \in ParsedResponses :
       parser = [pc |-> "parsed", type |-> parsed.type,
                 content |-> <<"ISA", "*", "00", "~", "\n", "IEA", "~">>,
                 result |-> parsed.result]

NextAgain ==
  \/ StartRun(FALSE)
  \/ \E f \in FileNames :
       /\ detectFileType(f) = parser.type
       /\ BeginFile(f, FALSE, parser.content)
  \/ (parser.type = "999" /\ Apply999(parser.result, {}, {}))
  \/ (parser.type = "277" /\ Apply277(parser.result, {}, {}))
  \/ (parser.type = "835" /\ Apply835(parser.result, {}, {}))
  \/ EndFile
  \/ FinishRun

SpecAgain == InitAgain /\ [][NextAgain]_vars

(***************************************************************************)
(* The reconciliation run with a store whose claim writes and event        *)
(* inserts may fail, over a smaller set of entries                         *)
(***************************************************************************)
FaultEntries999 == {e \in Entries999 : e.cn = "c1" /\ e.ak9 \in {"A", "R"}}

FaultEntries277 ==
  {e \in Entries277 : e.cn = "c1" /\ e.pcn = "" /\ e.cat \in {"A2", "F2"}}

FaultEntries835 ==
  {e \in Entries835 : e.cn = "c1" /\ e.pcn = "" /\ e.adj = <<>>}

NextFault ==
  \/ \E df \in BOOLEAN : StartRun(df)
  \/ \E f \in FileNames, sf \in BOOLEAN, content \in FileContents :
       BeginFile(f, sf, content)
  \/ \E e \in FaultEntries999, uf \in SUBSET ClaimIds, ef \in SUBSET ClaimIds :
       Apply999(e, uf, ef)
  \/ \E e \in FaultEntries277, uf \in SUBSET ClaimIds, ef \in SUBSET ClaimIds :
       Apply277(e, uf, ef)
  \/ \E e \in FaultEntries835, uf \in SUBSET ClaimIds, ef \in SUBSET ClaimIds :
       Apply835(e, uf, ef)
  \/ EndFile
  \/ FinishRun

SpecFault == Init /\ [][NextFault]_vars

(***************************************************************************)
(* Successive reconciliation runs, with the failures of the transport and  *)
(* of the process, over a smaller set of entries                           *)
(***************************************************************************)
\* downloadResponseFiles, lines 121-138: the fetch of f fails; the error is
\* logged and the loop goes on, f is not in the downloaded list
FetchFail(f) ==
  /\ run.pc = "loop"
  /\ cur.type = "none"
  /\ f \notin run.existing
  /\ f \notin run.taken
  /\ run' = [run EXCEPT !.taken = @ \cup {f}, !.fetchFailed = @ \cup {f}]
  /\ UNCHANGED <<claims, events, fileRecs, cur, hist, post, parser, overlap>>

\* variant: an error thrown for one file ends the run as the outer catch of
\* runReconciliation does
ThrowAborting ==
  /\ run.pc = "loop"
  /\ cur.type # "none"
  /\ run' = [IdleRun EXCEPT !.pc = "done", !.success = FALSE,
                            !.errors = <<[file |-> "", kind |-> "thrown"]>>]
  /\ cur' = NoFile
  /\ UNCHANGED <<claims, events, fileRecs, hist, post, parser, overlap>>

\* runReconciliation, lines 122-126: an error thrown while the file is
\* processed or its record updated is caught, recorded, and the loop goes on
Throw ==
  /\ run.pc = "loop"
  /\ cur.type # "none"
  /\ run' = [run EXCEPT
               !.errors = Append(@, [file |-> cur.name, kind |-> "thrown"])]
  /\ cur' = NoFile
  /\ UNCHANGED <<claims, events, fileRecs, hist, post, parser, overlap>>

\* the process running runReconciliation dies between two store operations
Crash ==
  /\ run.pc = "loop"
  /\ run' = [run EXCEPT !.pc = "crashed"]
  /\ cur' = NoFile
  /\ UNCHANGED <<claims, events, fileRecs, hist, post, parser, overlap>>

\* runReconciliation is called again
NextRun ==
  /\ run.pc \in {"done", "crashed"}
  /\ hist.runs < MaxRuns - 1
  /\ run' = IdleRun
  /\ hist' = [hist EXCEPT !.runs = @ + 1,
                          !.lastEnd = IF run.pc = "crashed" THEN "crashed"
                                      ELSE "returned"]
  /\ UNCHANGED <<claims, events, fileRecs, cur, post, parser, overlap>>

RunEntries999 == {e \in Entries999 : e.cn = "c1" /\ e.ak9 = "A"}

RunEntries277 ==
  {e \in Entries277 : e.cn = "c1" /\ e.pcn = "" /\ e.cat = "A2"}

RunEntries835 ==
  {e \in Entries835 : e.cn = "c1" /\ e.pcn = "" /\ e.paid = 1 /\ e.adj = <<>>}

NextRuns ==
  \/ \E df \in BOOLEAN : StartRun(df)
  \/ \E f \in FileNames : FetchFail(f)
  \/ \E f \in FileNames, sf \in BOOLEAN, content \in FileContents :
       BeginFile(f, sf, content)
  \/ \E e \in RunEntries999 : Apply999(e, {}, {})
  \/ \E e \in RunEntries277 : Apply277(e, {}, {})
  \/ \E e \in RunEntries835 : Apply835(e, {}, {})
  \/ Throw
  \/ EndFile
  \/ FinishRun
  \/ Crash
  \/ NextRun

SpecRuns == Init /\ [][NextRuns]_vars

(***************************************************************************)
(* Two reconciliation runs requested at the same time (POST                *)
(* /api/reconciliation twice).  Each await of runReconciliation and of the *)
(* process functions is a step of its own: listing the known filenames and *)
(* downloading, saving a file record, selecting the matched claims,        *)
(* updating one claim, inserting its status event, updating the record.    *)
(***************************************************************************)
Requests == {1, 2}

\* the orders in which the clearinghouse may list the response files
Listings ==
  {<<"f.999", "f.277", "f.835">>, <<"f.999", "f.835", "f.277">>,
   <<"f.277", "f.999", "f.835">>, <<"f.277", "f.835", "f.999">>,
   <<"f.835", "f.999", "f.277">>, <<"f.835", "f.277", "f.999">>}

\* what the response files on the server hold: one entry for control number
\* "c1" each
EntryOf(f) ==
  CASE detectFileType(f) = "999" -> CHOOSE e \in RunEntries999 : TRUE
    [] detectFileType(f) = "277" -> CHOOSE e \in RunEntries277 : TRUE
    [] OTHER -> CHOOSE e \in RunEntries835 : TRUE

\* the claims an entry of file f matches
MatchOf(cl, f) ==
  IF detectFileType(f) = "999" THEN Match999(cl, EntryOf(f))
  ELSE MatchEntry(cl, EntryOf(f))

\* the status the entry of file f sets
NewStatusOf(f) ==
  CASE detectFileType(f) = "999" -> NewStatus999(EntryOf(f))
    [] detectFileType(f) = "277" -> MappedStatus277(EntryOf(f).cat)
    [] OTHER -> NewStatus835(EntryOf(f))

\* the update the entry of file f makes to a row
UpdateOf(row, f) ==
  CASE detectFileType(f) = "999" -> Update999(row, EntryOf(f))
    [] detectFileType(f) = "277" -> Update277(row, EntryOf(f))
    [] OTHER -> Update835(row, EntryOf(f))

\* variant: edi_response_files accepts a second row with the same filename
SaveFailsNever(recs, f) == FALSE

\* the insert of a file record fails when a row with the filename exists:
\* filename TEXT NOT NULL UNIQUE
SaveFails(recs, f) == recs[f] # NoRec

IdleRequest ==
  [pc |-> "idle", existing |-> {}, fetched |-> {}, queue |-> <<>>,
   file |-> "", todo |-> {}, snap |-> [c \in ClaimIds |-> ""], at |-> 0,
   saved |-> {}, errors |-> <<>>]

InitOverlap ==
  /\ InitRecon
  /\ post = NoPost
  /\ parser = NoParse
  /\ \E listing \in Listings :
       overlap = [pc |-> "on", listing |-> listing,
                  runs |-> [r \in Requests |-> IdleRequest]]

\* the steps of a request leave the single-run state alone
OverlapFrame == UNCHANGED <<run, cur, hist, post, parser>>

\* runReconciliation, lines 51-73: the known filenames are read and the
\* files not among them are downloaded
OStart(r) ==
  /\ overlap.pc = "on"
  /\ overlap.runs[r].pc = "idle"
  /\ LET existing == existingFilenames(fileRecs)
         queue == SelectSeq(overlap.listing, LAMBDA f : f \notin existing)
     IN  overlap' = [overlap EXCEPT !.runs[r] =
                       [@ EXCEPT !.pc = "loop", !.existing = existing,
                                 !.fetched = {queue[i] : i \in DOMAIN queue},
                                 !.queue = queue]]
  /\ UNCHANGED <<claims, events, fileRecs>>
  /\ OverlapFrame

\* lines 76-94: the record of the next downloaded file is inserted; when the
\* insert fails the error is collected and the file is skipped
OSave(r) ==
  /\ overlap.pc = "on"
  /\ overlap.runs[r].pc = "loop"
  /\ overlap.runs[r].queue # <<>>
  /\ LET f == Head(overlap.runs[r].queue)
     IN  IF SaveFails(fileRecs, f)
           THEN /\ overlap' = [overlap EXCEPT !.runs[r] =
                                 [@ EXCEPT !.queue = Tail(@),
                                           !.errors = Append(@,
                                              [file |-> f, kind |-> "save"])]]
                /\ UNCHANGED fileRecs
           ELSE /\ fileRecs' = [fileRecs EXCEPT ![f] =
                                  [NoRec EXCEPT
                                     !.file_type = detectFileType(f),
                                     !.processing_status = "pending"]]
                /\ overlap' = [overlap EXCEPT !.runs[r] =
                                 [@ EXCEPT !.pc = "file", !.file = f,
                                           !.queue = Tail(@),
                                           !.saved = @ \cup {f}]]
  /\ UNCHANGED <<claims, events>>
  /\ OverlapFrame

\* process999File / process277File / process835File: the select of the
\* matched claims, which reads their statuses
OSelect(r) ==
  /\ overlap.pc = "on"
  /\ overlap.runs[r].pc = "file"
  /\ overlap' = [overlap EXCEPT !.runs[r] =
                   [@ EXCEPT !.pc = "entry",
                             !.todo = MatchOf(claims, overlap.runs[r].file),
                             !.snap = [c \in ClaimIds |-> claims[c].status]]]
  /\ UNCHANGED <<claims, events, fileRecs>>
  /\ OverlapFrame

\* the update of the next matched claim; a 999 skips the claim when the
\* status it read does not allow the update
OUpdate(r) ==
  /\ overlap.pc = "on"
  /\ overlap.runs[r].pc = "entry"
  /\ overlap.runs[r].todo # {}
  /\ LET me == overlap.runs[r]
         c == CHOOSE x \in me.todo : \A y \in me.todo : x <= y
         should == detectFileType(me.file) = "999" =>
                     ShouldUpdate999(me.snap[c], NewStatusOf(me.file))
     IN  IF should
           THEN /\ claims' = [claims EXCEPT ![c] = UpdateOf(@, me.file)]
                /\ overlap' = [overlap EXCEPT !.runs[r] =
                                 [@ EXCEPT !.pc = "event", !.at = c]]
           ELSE /\ overlap' = [overlap EXCEPT !.runs[r] =
                                 [@ EXCEPT !.todo = @ \ {c}]]
                /\ UNCHANGED claims
  /\ UNCHANGED <<events, fileRecs>>
  /\ OverlapFrame

\* recordStatusEvent for the claim just updated, with the status the select
\* read as previous status
OEvent(r) ==
  /\ overlap.pc = "on"
  /\ overlap.runs[r].pc = "event"
  /\ LET me == overlap.runs[r]
         e == EntryOf(me.file)
     IN  /\ events' = Append(events,
              StatusEvent(me.at, me.file, me.snap[me.at], NewStatusOf(me.file),
                          detectFileType(me.file),
                          IF detectFileType(me.file) = "835" THEN <<e.paid>>
                          ELSE <<>>))
         /\ overlap' = [overlap EXCEPT !.runs[r] =
                          [@ EXCEPT !.pc = "entry", !.todo = @ \ {me.at},
                                    !.at = 0]]
  /\ UNCHANGED <<claims, fileRecs>>
  /\ OverlapFrame

\* runReconciliation, lines 104-113: the record of the file is updated
OEndFile(r) ==
  /\ overlap.pc = "on"
  /\ overlap.runs[r].pc = "entry"
  /\ overlap.runs[r].todo = {}
  /\ fileRecs' = [fileRecs EXCEPT ![overlap.runs[r].file] =
                    [@ EXCEPT !.processing_status = "processed"]]
  /\ overlap' = [overlap EXCEPT !.runs[r] =
                   [@ EXCEPT !.pc = "loop", !.file = ""]]
  /\ UNCHANGED <<claims, events>>
  /\ OverlapFrame

\* lines 132-150: the run returns
OFinish(r) ==
  /\ overlap.pc = "on"
  /\ overlap.runs[r].pc = "loop"
  /\ overlap.runs[r].queue = <<>>
  /\ overlap' = [overlap EXCEPT !.runs[r] = [@ EXCEPT !.pc = "done"]]
  /\ UNCHANGED <<claims, events, fileRecs>>
  /\ OverlapFrame

NextOverlap ==
  \E r \in Requests :
    \/ OStart(r)
    \/ OSave(r)
    \/ OSelect(r)
    \/ OUpdate(r)
    \/ OEvent(r)
    \/ OEndFile(r)
    \/ OFinish(r)

SpecOverlap == InitOverlap /\ [][NextOverlap]_vars

(***************************************************************************)
(* Properties of the reconciliation engine                                 *)
(***************************************************************************)
\* the step applies one entry of a response file of type t
Applied(t) == cur.type = t /\ cur'.type = t /\ cur'.seen = cur.seen + 1

\* the events of claim c, in insertion order
EventsOf(ev, c) == SelectSeq(ev, LAMBDA x : x.claim_id = c)

\* the claims that got an event in this step
NewlyAudited ==
  {events'[i].claim_id : i \in (Len(events) + 1)..Len(events')}

\* C1: once a claim is paid, applying a 999 or a 277 entry that matches it by
\* control number never moves its status away from paid.
C1_PaidNeverRegressed ==
  [][\A c \in ClaimIds :
       (/\ claims[c].status = "paid"
        /\ (Applied("999") \/ Applied("277"))
        /\ hist'.lastMatch = "cn")
       => claims'[c].status = "paid"]_vars

ExpectedMatch(e) ==
  LET byCn == {c \in ClaimIds : claims[c].control_number = e.cn}
      byPcn == {c \in ClaimIds : claims[c].payer_claim_number = e.pcn}
  IN  IF byCn # {} THEN byCn
      ELSE IF e.pcn # "" THEN byPcn
      ELSE {}

\* the step wrote and audited exactly the claims in S
UpdatedExactly(S) ==
  /\ NewlyAudited = S
  /\ \A c \in ClaimIds :
       IF c \in S THEN hist'.writes[c] = hist.writes[c] + 1
       ELSE claims'[c] = claims[c] /\ hist'.writes[c] = hist.writes[c]

\* C3: a 277 or 835 entry updates exactly the claims holding its control
\* number when there are any, otherwise exactly the claims holding its payer
\* claim number when it has one, otherwise none.
C3_MatchingPolicy ==
  [][/\ \A e \in Entries277 :
          (Applied("277") /\ Apply277(e, {}, {}))
          => UpdatedExactly(ExpectedMatch(e))
     /\ \A e \in Entries835 :
          (Applied("835") /\ Apply835(e, {}, {}))
          => UpdatedExactly(ExpectedMatch(e))]_vars

\* an entry found its claims through the payer claim number and updated them
C3_Witness ==
  /\ hist.lastMatch = "pcn"
  /\ cur.type \in {"277", "835"}
  /\ cur.updated > 0

\* C4: a run that met a 277 or 835 entry matching no stored claim reports it
\* as unmatched in what it returns.
C4_UnmatchedSurfaced ==
  (run.pc = "done" /\ hist.unmatched > 0)
  => \E i \in DOMAIN run.errors : run.errors[i].kind = "unmatched"

\* C5: every status write has its one event unless an event insert failed,
\* and a run in which a claim write or an event insert failed reports it.
C5_WriteAuditedOrReported ==
  /\ "event" \notin hist.faults =>
       \A c \in ClaimIds : Len(EventsOf(events, c)) = hist.writes[c]
  /\ (run.pc = "done" /\ hist.faults # {}) =>
       \E i \in DOMAIN run.errors : run.errors[i].kind \in hist.faults

\* the one event a step appends for claim c
AppendsFor(c, ev) == EventsOf(events', c) = Append(EventsOf(events, c), ev)

\* C6: an accepted 999 takes a submitted claim to acknowledged, a 277 with
\* category A2 then takes it to accepted with accepted_date set, an 835 with
\* paid amount p > 0 then takes it to paid with paid_amount p; each step
\* appends exactly one event for the claim, with source 999, 277, 835 in
\* turn, the last carrying payment_amount p.
C6_EndToEnd ==
  [][/\ \A e \in Entries999 :
          (Applied("999") /\ Accepted999(e.ak9) /\ Apply999(e, {}, {}))
          => \A c \in ClaimIds :
               (claims[c].control_number = e.cn
                /\ claims[c].status = "submitted")
               => /\ claims'[c].status = "acknowledged"
                  /\ AppendsFor(c, [claim_id |-> c,
                                    previous_status |-> "submitted",
                                    new_status |-> "acknowledged",
                                    source |-> "999",
                                    payment_amount |-> <<>>])
     /\ \A e \in Entries277 :
          (Applied("277") /\ e.cat = "A2" /\ Apply277(e, {}, {}))
          => \A c \in ClaimIds :
               (claims[c].control_number = e.cn
                /\ claims[c].status = "acknowledged")
               => /\ claims'[c].status = "accepted"
                  /\ claims'[c].accepted_date
                  /\ AppendsFor(c, [claim_id |-> c,
                                    previous_status |-> "acknowledged",
                                    new_status |-> "accepted",
                                    source |-> "277",
                                    payment_amount |-> <<>>])
     /\ \A e \in Entries835 :
          (Applied("835") /\ e.paid > 0 /\ Apply835(e, {}, {}))
          => \A c \in ClaimIds :
               (claims[c].control_number = e.cn
                /\ claims[c].status = "accepted")
               => /\ claims'[c].status = "paid"
                  /\ claims'[c].paid_amount = <<e.paid>>
                  /\ AppendsFor(c, [claim_id |-> c,
                                    previous_status |-> "accepted",
                                    new_status |-> "paid",
                                    source |-> "835",
                                    payment_amount |-> <<e.paid>>])]_vars

\* a claim went through the whole scenario: paid, with its three events
C6_Witness ==
  \E c \in ClaimIds, p \in 1..MaxAmt :
    /\ claims[c].status = "paid"
    /\ claims[c].paid_amount = <<p>>
    /\ claims[c].accepted_date
    /\ EventsOf(events, c) =
         << [claim_id |-> c, previous_status |-> "submitted",
             new_status |-> "acknowledged", source |-> "999",
             payment_amount |-> <<>>],
            [claim_id |-> c, previous_status |-> "acknowledged",
             new_status |-> "accepted", source |-> "277",
             payment_amount |-> <<>>],
            [claim_id |-> c, previous_status |-> "accepted",
             new_status |-> "paid", source |-> "835",
             payment_amount |-> <<p>>] >>

(***************************************************************************)
(* Properties of the 837P generator and of the submission route            *)
(***************************************************************************)
\* the generated text, tokenized
Generated == parseEDISegments(post.edi)

\* the index of the first segment of segs with this id
FirstIndex(segs, id) ==
  CHOOSE i \in DOMAIN segs :
    segs[i].id = <<id>> /\ \A j \in 1..(i - 1) : segs[j].id # <<id>>

\* the SE count element of segs is the number of segments from ST to SE
TrailerCountMatches(segs) ==
  LET st == FirstIndex(segs, "ST")
      se == FirstIndex(segs, "SE")
  IN  getElement(segs[se], 0) = <<ToString(se - st + 1)>>

\* the whole amount written by toFixed(2), -1 when it is none
AmountOf(element) ==
  IF \E n \in 0..(MaxCharge * MaxLines) : element = <<ToFixed2(n)>>
    THEN CHOOSE n \in 0..(MaxCharge * MaxLines) : element = <<ToFixed2(n)>>
    ELSE -1

RECURSIVE SumAmounts(_, _)
SumAmounts(segs, i) ==
  IF i = 0 THEN 0
  ELSE SumAmounts(segs, i - 1)
         + (IF segs[i].id = <<"SV1">> THEN AmountOf(getElement(segs[i], 1))
            ELSE 0)

\* the CLM total charge of segs is the sum of the charges of its SV1 segments
TotalChargeMatches(segs) ==
  AmountOf(getElement(segs[FirstIndex(segs, "CLM")], 1))
    = SumAmounts(segs, Len(segs))

\* C7: for every valid claim the SE count element of the generated 837P is
\* the number of segments from ST to SE inclusive of the tokenized text.
C7_TrailerCountRoundTrip ==
  post.edi # <<>> => TrailerCountMatches(Generated)

\* C8: an 837P whose SE count or CLM total does not match its own segments is
\* never handed to uploadClaim and its claim never becomes submitted.
C8_MismatchNeverTransported ==
  /\ post.uploaded # <<>> =>
       /\ TrailerCountMatches(parseEDISegments(post.uploaded))
       /\ TotalChargeMatches(parseEDISegments(post.uploaded))
  /\ post.claim = "submitted" =>
       /\ TrailerCountMatches(Generated)
       /\ TotalChargeMatches(Generated)

\* the ids of the segments of segs from index i on, n of them at most
IdsFrom(segs, i, n) ==
  [k \in 1..(IF i + n - 1 <= Len(segs) THEN n ELSE 0) |-> segs[i + k - 1].id]

\* the HL segments of segs with this level number
LevelsOf(segs, level) ==
  {i \in DOMAIN segs :
     segs[i].id = <<"HL">> /\ getElement(segs[i], 0) = <<level>>}

\* the NM1 segments of segs with this entity code
NamesOf(segs, entity) ==
  {i \in DOMAIN segs :
     segs[i].id = <<"NM1">> /\ getElement(segs[i], 0) = <<entity>>}

\* C9: HL*3 followed by PAT, NM1*QC, N3, N4, DMG is in the generated text if
\* and only if the subscriber relationship is not self; for self the patient
\* N3, N4, DMG follow the subscriber name, there is no HL*3 and the
\* subscriber HL declares no child level.
C9_PatientLoopIffNotSelf ==
  post.edi # <<>> =>
    LET segs == Generated
        hl2 == FirstIndex(segs, "HL") + 1
        sub == CHOOSE i \in NamesOf(segs, "IL") : TRUE
        hasPatientLoop ==
          \E i \in LevelsOf(segs, "3") :
            /\ IdsFrom(segs, i, 6) = << <<"HL">>, <<"PAT">>, <<"NM1">>,
                                       <<"N3">>, <<"N4">>, <<"DMG">> >>
            /\ i + 2 \in NamesOf(segs, "QC")
    IN  /\ hasPatientLoop <=> post.data.subscriberRelationship # "self"
        /\ Cardinality(NamesOf(segs, "IL")) = 1
        /\ post.data.subscriberRelationship = "self" =>
             /\ LevelsOf(segs, "3") = {}
             /\ NamesOf(segs, "QC") = {}
             /\ \A i \in DOMAIN segs : segs[i].id # <<"PAT">>
             /\ IdsFrom(segs, sub, 4) =
                  << <<"NM1">>, <<"N3">>, <<"N4">>, <<"DMG">> >>
             /\ LevelsOf(segs, "2") = {sub - 2}
             /\ getElement(segs[sub - 2], 3) = <<"0">>
        /\ post.data.subscriberRelationship # "self" =>
             /\ Cardinality(LevelsOf(segs, "3")) = 1
             /\ IdsFrom(segs, sub, 2) = << <<"NM1">>, <<"NM1">> >>
             /\ sub + 1 \in NamesOf(segs, "PR")
             /\ LevelsOf(segs, "2") = {sub - 2}
             /\ getElement(segs[sub - 2], 3) = <<"1">>

\* a text was generated for a patient who is the child of the subscriber
C9_Witness ==
  /\ post.edi # <<>>
  /\ post.data.subscriberRelationship = "child"
  /\ LevelsOf(Generated, "3") # {}

\* the orderings of 1..n
Orderings(n) ==
  {f \in [1..n -> 1..n] : \A i, j \in 1..n : f[i] = f[j] => i = j}

\* a code without its punctuation
Unpunctuated(code) == SelectSeq(code, LAMBDA t : t # ".")

C11_GenerateHasNoEffect ==
  post.pc = "generated" =>
    /\ post.data = EdiData(post.body)
    /\ post.claim = "none"
    /\ post.uploaded = <<>>

\* the control number written into the CLM segment of segs
EmbeddedControlNumber(segs) == getElement(segs[FirstIndex(segs, "CLM")], 0)

\* C13: once the submission step has delivered a claim, the control_number
\* of its stored row is the control number embedded in the generated 837P.
C13_StoredControlNumber ==
  post.claim = "submitted" =>
    <<post.control_number>> = EmbeddedControlNumber(Generated)

\* C14: a claim becomes failed only from submitted or acknowledged.
C14_FailedOnlyAfterSubmitted ==
  [][(post'.claim = "failed" /\ post.claim # "failed")
     => post.claim \in {"submitted", "acknowledged"}]_vars

\* C12: any two distinct submission attempts have distinct control numbers,
\* whether they start at the same clock instant or any time apart.
C12_ControlNumbersDistinct ==
  post.pc = "mint" =>
    \A i, j \in DOMAIN post.attempts :
      i # j => post.attempts[i].controlNumber # post.attempts[j].controlNumber

C16_FailedFileRetried ==
  [][(run.pc = "idle" /\ run'.pc = "loop") =>
       \A f \in FileNames :
         fileRecs[f].processing_status = "failed" => f \notin run'.existing]_vars

\* the step adds one entry naming f to the error list and leaves the run in
\* its loop, ready for the next file
NamesFile(f) ==
  /\ Len(run'.errors) = Len(run.errors) + 1
  /\ SubSeq(run'.errors, 1, Len(run.errors)) = run.errors
  /\ run'.errors[Len(run'.errors)].file = f
  /\ run'.pc = "loop"
  /\ cur'.type = "none"
  /\ run'.taken = run.taken \cup {f}
  /\ run'.existing = run.existing

\* C17: a failed save, a parse failure and a thrown error each add an entry
\* naming the file to the error list and leave the run in its loop; the
\* list is returned as it stands when the loop ends.
C17_FileFailureIsolated ==
  [][/\ \A f \in FileNames, content \in FileContents :
          BeginFile(f, TRUE, content) => NamesFile(f)
     /\ Throw => NamesFile(cur.name)
     /\ (EndFile /\ Len(parseEDISegments(cur.content)) = 0)
          => NamesFile(cur.name)
     /\ FinishRun => (run'.errors = run.errors /\ run'.pc = "done")]_vars

\* after a thrown error and another file failure of the same run, a further
\* file is being applied
C17_Witness ==
  /\ run.pc = "loop"
  /\ Len(run.errors) = 2
  /\ run.errors[1].kind = "thrown"
  /\ run.errors[2].kind \in {"save", "process"}
  /\ cur.seen > 0
  /\ cur.updated > 0

\* C18: a run in which the fetch of a file failed returns success = false,
\* has saved no file record and has updated no claim.
C18_FetchFailureAborts ==
  (run.pc = "done" /\ run.fetchFailed # {}) =>
    /\ ~run.success
    /\ run.claimsUpdated = 0
    /\ \A f \in FileNames \ run.existing : fileRecs[f] = NoRec

\* C19: while a file whose content tokenizes to no segment is processed, no
\* claim changes and no event is added; its processing ends with its record
\* failed and the error stored, an entry for it in the error list, and the
\* run in its loop.
C19_EmptyFileFails ==
  [][(cur.type # "none" /\ Len(parseEDISegments(cur.content)) = 0) =>
       /\ claims' = claims
       /\ events' = events
       /\ cur'.type = "none" =>
            /\ fileRecs'[cur.name].processing_status = "failed"
            /\ fileRecs'[cur.name].processing_error # NULL
            /\ NamesFile(cur.name)]_vars

\* a file without segments has failed and the next file is being applied
C19_Witness ==
  /\ \E f \in FileNames :
       /\ fileRecs[f].processing_status = "failed"
       /\ Len(parseEDISegments(fileRecs[f].file_content)) = 0
  /\ cur.type # "none"
  /\ cur.updated > 0

(***************************************************************************)
(* Properties of the response parsers                                      *)
(***************************************************************************)
\* C20: every claim payment entry of parse835 has claimStatus paid when its
\* paidAmount is above 0 and denied otherwise, whatever its CLP status code.
C20_StatusFromPaidAmount ==
  (parser.pc = "parsed" /\ parser.type = "835") =>
    \A i \in DOMAIN parser.result.claimPayments :
      LET cp == parser.result.claimPayments[i]
      IN  cp.claimStatus = IF cp.paidAmount > 0 THEN "paid" ELSE "denied"

\* C21: is999Accepted of a parsed 999 is true exactly when the overall AK9
\* outcome is accepted and at least one of the per-transaction outcomes is
\* individually accepted.
C21_AcceptedIffOverallAndOne ==
  (parser.pc = "parsed" /\ parser.type = "999") =>
    (is999Accepted(parser.result) <=>
       /\ parser.result.accepted
       /\ \E i \in DOMAIN parser.result.transactionSetResponses :
            parser.result.transactionSetResponses[i].accepted)

(***************************************************************************)
(* Properties of repeated application                                      *)
(***************************************************************************)
\* C22: applying the same parsed response (999, 277 or 835) to the claim
\* store a second time, with nothing in between, leaves every claim's status
\* as it was, appends no audit event, and alters or removes no audit event.
C22_SecondApplicationIsNoOp ==
  [][(cur.seen >= 1 /\ cur'.seen = cur.seen + 1) =>
       /\ \A c \in ClaimIds : claims'[c].status = claims[c].status
       /\ events' = events]_vars

CoPrCodes(adj) ==
  JoinReasons(SelectSeq(adj, LAMBDA a :
                a.groupCode = "CO" \/ a.groupCode = "PR"))

\* C24 as stated: for every claim matched by an 835 entry, process835File
\* sets the status to paid when the entry's paidAmount is above 0 and to
\* denied otherwise, whatever the current status is, stores the paid amount
\* and a paid date, and when the new status is denied sets the rejection
\* reason to the concatenation of the entry's CO and PR adjustment codes.
C24_Update835 ==
  [][\A e \in Entries835 :
       Apply835(e, {}, {}) =>
         \A c \in MatchEntry(claims, e) :
           LET newStatus == IF e.paid > 0 THEN "paid" ELSE "denied"
               new == claims'[c]
           IN  /\ new.status = newStatus
               /\ new.paid_amount = <<e.paid>>
               /\ new.paid_date
               /\ newStatus = "denied" =>
                    new.rejection_reason = CoPrCodes(e.adj)]_vars

\* C24 amended: as C24, but when the new status is denied and the entry has
\* no CO or PR adjustment, the rejection reason is the entry's status
\* description.
C24_Update835OrDescription ==
  [][\A e \in Entries835 :
       Apply835(e, {}, {}) =>
         \A c \in MatchEntry(claims, e) :
           LET newStatus == IF e.paid > 0 THEN "paid" ELSE "denied"
               new == claims'[c]
           IN  /\ new.status = newStatus
               /\ new.paid_amount = <<e.paid>>
               /\ new.paid_date
               /\ newStatus = "denied" =>
                    new.rejection_reason =
                      IF CoPrCodes(e.adj) # "" THEN CoPrCodes(e.adj)
                      ELSE StatusDescription835(e.code)]_vars

\* an 835 entry without CO or PR adjustment has denied a claim, and one with
\* a payment has paid a claim
C24_Witness ==
  /\ \E c \in ClaimIds :
       /\ claims[c].status = "denied"
       /\ claims[c].paid_date
       /\ claims[c].rejection_reason = StatusDescription835("4")
  /\ \E i \in DOMAIN events :
       events[i].source = "835" /\ events[i].new_status = "paid"

\* the adjustments of the CAS segments between the CLP at clpIndex and the
\* first SVC of its loop
ClaimLevelAdjustments(segs, clpIndex) ==
  LET stops == {j \in (clpIndex + 1)..Len(segs) :
                  segs[j].id \in {<<"SVC">>, <<"CLP">>}}
      end == IF stops = {} THEN Len(segs) + 1
             ELSE CHOOSE k \in stops : \A m \in stops : k <= m
      casSegments ==
        SelectSeq(SubSeq(segs, clpIndex + 1, end - 1),
                  LAMBDA g : g.id = <<"CAS">>)
  IN  [k \in DOMAIN casSegments |-> parseAdjustment(casSegments[k])]

\* C25: in parse835 a CAS segment that follows an SVC segment inside a claim
\* loop belongs to that service line only; the claim-level adjustments of an
\* entry are exactly the CAS segments between the CLP segment and the first
\* SVC segment of the loop.
C25_ClaimLevelAdjustments ==
  (parser.pc = "parsed" /\ parser.type = "835") =>
    LET segs == parseEDISegments(parser.content)
        clpIndexes == IndexesOf(segs, "CLP")
    IN  \A n \in DOMAIN parser.result.claimPayments :
          parser.result.claimPayments[n].adjustments =
            ClaimLevelAdjustments(segs, clpIndexes[n])

(***************************************************************************)
(* Diagnosis pointers of the generated 837P                                *)
(***************************************************************************)
\* C27: each diagnosis pointer k on a service line of the generated 837P
\* designates, in the emitted HI segment, the diagnosis code at position k of
\* the claim's diagnosis list as the caller supplied it, also when the
\* generator puts the primary diagnosis first.
C27_PointersDesignateSuppliedCodes ==
  post.edi # <<>> =>
    LET input == post.body.diagnosis_codes
        segs == Generated
        hi == segs[FirstIndex(segs, "HI")].elements
    IN  \A i \in DOMAIN segs :
          segs[i].id = <<"SV1">> =>
            LET pointers == Split(getElement(segs[i], 6), ":")
            IN  \A k \in DOMAIN input :
                  (\E j \in DOMAIN pointers : pointers[j] = <<ToString(k)>>)
                    => getSubElement(hi[k], 1) = Unpunctuated(input[k].code)

(***************************************************************************)
(* The stored payer claim number                                           *)
(***************************************************************************)
\* C28: a payer claim number stored on a claim is never cleared by
\* reconciliation: a 999, 277 or 835 entry that carries no payer claim
\* number leaves the stored payer_claim_number of every claim unchanged.
C28_PayerClaimNumberKept ==
  [][/\ \A c \in ClaimIds :
          claims[c].payer_claim_number # NULL
            => claims'[c].payer_claim_number # NULL
     /\ \A e \in Entries999 :
          Apply999(e, {}, {}) =>
            \A c \in ClaimIds :
              claims'[c].payer_claim_number = claims[c].payer_claim_number
     /\ \A e \in Entries277 :
          (Apply277(e, {}, {}) /\ e.pcn = "") =>
            \A c \in ClaimIds :
              claims'[c].payer_claim_number = claims[c].payer_claim_number
     /\ \A e \in Entries835 :
          (Apply835(e, {}, {}) /\ e.pcn = "") =>
            \A c \in ClaimIds :
              claims'[c].payer_claim_number = claims[c].payer_claim_number]_vars

(***************************************************************************)
(* The file records a run leaves behind                                    *)
(***************************************************************************)
\* C29: when a reconciliation run returns, every response-file record it
\* saved during the run is processed or failed; none is left pending, also
\* when processing the file raised an error.
C29_NoRecordLeftPending ==
  run.pc = "done" =>
    \A f \in run.taken :
      fileRecs[f] # NoRec =>
        fileRecs[f].processing_status \in {"processed", "failed"}

(***************************************************************************)
(* Properties of overlapping runs                                          *)
(***************************************************************************)
\* the audit events of claim c form a chain
Chained(ev, c) ==
  LET mine == EventsOf(ev, c)
  IN  \A k \in 1..(Len(mine) - 1) :
        mine[k + 1].previous_status = mine[k].new_status

\* C26: operations on the same claim are serialized even when two
\* reconciliation runs overlap: the audit events of each claim form a chain
\* in which every event's previous_status is the new_status of the event
\* before it, and no status is written on the strength of a status that was
\* read before another write to the same claim.
C26_ClaimOperationsSerialized ==
  [][/\ \A c \in ClaimIds : Chained(events', c)
     /\ \A r \in Requests, c \in ClaimIds :
          (overlap.runs[r].pc = "entry" /\ overlap'.runs[r].pc = "event"
             /\ overlap'.runs[r].at = c)
            => overlap.runs[r].snap[c] = claims[c].status]_vars

\* C30: when two reconciliation runs overlap and both fetch the same new
\* response file, at most one of them applies it: one run only saves its
\* record and updates the claims it targets, and each of those claims gets
\* one audit event for the file.
C30_OneRunAppliesFile ==
  \A f \in FileNames :
    /\ Cardinality({r \in Requests : f \in overlap.runs[r].saved}) <= 1
    /\ \A r \in Requests :
         overlap.runs[r].file = f => f \in overlap.runs[r].saved
    /\ \A c \in MatchOf(claims, f) :
         Len(SelectSeq(EventsOf(events, c),
                       LAMBDA x : x.source = detectFileType(f))) <= 1

\* both runs fetched the same new file and have returned; one of them
\* applied it and the other collected the failed save
C30_Witness ==
  /\ \A r \in Requests : overlap.runs[r].pc = "done"
  /\ \E f \in FileNames, r, q \in Requests :
       /\ r # q
       /\ f \in overlap.runs[r].fetched \cap overlap.runs[q].fetched
       /\ f \in overlap.runs[r].saved
       /\ \E i \in DOMAIN overlap.runs[q].errors :
            overlap.runs[q].errors[i] = [file |-> f, kind |-> "save"]
       /\ \E i \in DOMAIN events :
            events[i].source = detectFileType(f) /\ events[i].claim_id = 1

====
